---- MODULE Spec2Model ----
(***************************************************************************)
(* The batching multi-get engine of deltasearch: batch (groups of          *)
(* bulkRequests keyed by getKey) and bulkRequest (pending reqresps keyed   *)
(* by a per-document key), with the execution of one batch against a       *)
(* backend whose answers are arbitrary.                                    *)
(*                                                                         *)
(* Strings are TLA+ strings, concatenated with \o as Go's + does.  A       *)
(* reqresp is [req, id]: id names the result channel and the destination   *)
(* the caller created for the call; id 0 is the zero reqresp (nil channel, *)
(* nil destination) a Go map lookup yields for a missing key.  Result      *)
(* channels have capacity 1 (the data model's "capacity >= 1"), so the one *)
(* send a channel gets never blocks; a send on the nil channel blocks for  *)
(* ever.  Destinations are integers, 0 when created.                       *)
(*                                                                         *)
(* batch, getKey, batch.add and batch.execute are those of the batch file; *)
(* everything of bulkRequest is that of bulkrequest.go.                    *)
(***************************************************************************)
EXTENDS Integers, Sequences, FiniteSets, TLC

\* ---------------------------------------------------------------- bounds
MaxRequests == 2
\* Goroutines that call decodeSource on one bulkRequest at the same time.
MaxGoroutines == 2

\* ------------------------------------------------------------ input sets
Indices == {"", "a"}
DocumentIDs == {"a", "aa"}
FieldLists == {<< >>, <<"a">>}
Sources == {"1", "x"}
StatusOK == 200
StatusCodes == {StatusOK, 201, 404, 500}

GetRequests == [Index : Indices, DocumentID : DocumentIDs, Fields : FieldLists]

\* responseDoc: one entry of the reply.  Source is read only when Found.
Docs ==
  [Index : Indices, ID : DocumentIDs, Found : {TRUE}, Source : Sources]
    \cup [Index : Indices, ID : DocumentIDs, Found : {FALSE}, Source : {""}]

NoDoc == [Index |-> "", ID |-> "", Found |-> FALSE, Source |-> "-"]

\* ---------------------------------------------------------------- errors
Err(kind, code) == [kind |-> kind, code |-> code]
Nil == Err("nil", 0)
TransportErrs == {Err("connection refused", 0), Err("context canceled", 0)}
DecodeBodyErr == Err("error decoding body", 0)
DecodeSourceErr == Err("error decoding source", 0)

\* opensearchapi.Response.IsError: status above 299.
IsError(status) == status > 299

\* The error processResponse builds in its default branch.
StatusErr(status) ==
  IF IsError(status) THEN Err("HTTP Error", status)
  ELSE Err("Unexpected HTTP return code", status)

GetResponse(found, err) == [found |-> found, err |-> err]

\* ------------------------------------------------------------------ keys
RECURSIVE Join(_)
Join(fields) == IF fields = << >> THEN "" ELSE Head(fields) \o Join(Tail(fields))

getKey(rr) == Join(rr.req.Fields) \o rr.req.Index

keyFromResponseDoc(doc) == doc.Index \o doc.ID

keyFromRR(rr) == rr.req.Index \o rr.req.DocumentID

GroupKeys == {getKey([req |-> rq, id |-> 0]) : rq \in GetRequests}

\* ------------------------------------------------------------------ maps
ZeroRR == [req |-> [Index |-> "", DocumentID |-> "", Fields |-> << >>], id |-> 0]

\* m[key] of a Go map: the zero value when the key is missing.
Lookup(m, key) == IF key \in DOMAIN m THEN m[key] ELSE ZeroRR

\* A map assignment that leaves an entry the map already has.
MapSetKeepsFirst(m, key, rr) ==
  [k \in DOMAIN m \cup {key} |-> IF k \in DOMAIN m THEN m[k] ELSE rr]

MapSet(m, key, rr) == [k \in DOMAIN m \cup {key} |-> IF k = key THEN rr ELSE m[k]]

MapDelete(m, key) == [k \in DOMAIN m \ {key} |-> m[k]]

EmptyMap == [k \in {} |-> ZeroRR]

\* The channels (and destinations) of the reqresps a bulkRequest holds.
IdsOf(rrs) == {rrs[k].id : k \in DOMAIN rrs}

\* -------------------------------------------------------------- channels
\* A channel is the log of what was done to it: sends and closes, in order.
SendEv(resp) == [op |-> "send", val |-> resp]
CloseEv == [op |-> "close", val |-> GetResponse(FALSE, Nil)]

\* rr.resp <- resp; close(rr.resp)
SendAndClose(log, resp) == log \o << SendEv(resp), CloseEv >>

\* Go panics on a send to, or a close of, a closed channel.
ChanPanics(log) ==
  \E i, j \in 1..Len(log) : i < j /\ log[i].op = "close"

\* ---------------------------------------------------------------- decode
\* json.Unmarshal of a raw source into an integer destination: "1" and "2"
\* parse, anything else ("x", the empty source) is refused before any write.
Valid(src) == src \in {"1", "2"}
Parsed(src) == IF src = "1" THEN 1 ELSE 2

\* A decodeSource that reports success and writes nothing.
decodeWriteNothing(d, src, id) == d

\* decodeSource(src, dst) for the destination of reqresp id; id 0 is the nil
\* destination, which json.Unmarshal refuses.
decodeErr(src, id) == IF id /= 0 /\ Valid(src) THEN Nil ELSE DecodeSourceErr
decodeWrite(d, src, id) ==
  IF id /= 0 /\ Valid(src) THEN [d EXCEPT ![id] = Parsed(src)] ELSE d

\* ----------------------------------------------------------------- state
VARIABLES
  batch,      \* group key -> (document key -> reqresp)
  submitted,  \* the reqresps handed to batch.add, in order
  chans,      \* reqresp id -> log of its result channel
  dst,        \* reqresp id -> value of its destination
  pc,         \* where the batch's goroutine is
  cur,        \* the group batch.execute is executing
  executed,   \* the groups batch.execute has started
  backend,    \* group key -> what the backend answered
  doc,        \* the reply entry being processed
  ret,        \* group key -> the error its execution returned
  result,     \* what batch.execute returned
  held,       \* group key -> ids the group held when execute began
  origin,     \* reqresp id -> the reply entry that resolved or wrote it
  decodeMutex,\* the decodeMutex field of the bulkRequest
  frame,      \* goroutine -> its call of decodeSource on the bulkRequest
  target      \* the destination the calls of decodeSource share

\* What the concurrent calls of decodeSource work on.
decodeVars == << decodeMutex, frame, target >>

vars == << batch, submitted, chans, dst, pc, cur, executed, backend, doc,
           ret, result, held, origin, decodeVars >>

RRIds == 1..MaxRequests
NoGroup == "<none>"
NoAnswer == [kind |-> "none", err |-> Nil, status |-> 0, bodyOK |-> FALSE]

TypeOK ==
  /\ DOMAIN batch \subseteq GroupKeys
  /\ Len(submitted) <= MaxRequests
  /\ pc \in {"intake", "panic", "loop", "docs", "send", "blocked",
             "returned"}
  /\ cur \in GroupKeys \cup {NoGroup}
  /\ executed \subseteq DOMAIN batch
  /\ doc \in Docs \cup {NoDoc}

Goroutines == 1..MaxGoroutines

\* A goroutine that is not in decodeSource: it has no receiver copy.
NoFrame == [at |-> "out", mutex |-> "none", src |-> "", err |-> Nil]

\* newBulkRequest leaves decodeMutex at its zero value, an unlocked mutex.
NoCalls ==
  /\ decodeMutex = "unlocked"
  /\ frame = [g \in Goroutines |-> NoFrame]
  /\ target = 0

\* batch is a plain map type with no constructor: a group exists in a batch
\* only if whoever built the batch put one there (batch.add makes none).  The
\* initial batch is any set of empty groups, the empty batch included.
Init ==
  /\ \E G \in SUBSET GroupKeys : batch = [k \in G |-> EmptyMap]
  /\ submitted = << >>
  /\ chans = [r \in RRIds |-> << >>]
  /\ dst = [r \in RRIds |-> 0]
  /\ pc = "intake"
  /\ cur = NoGroup
  /\ executed = {}
  /\ backend = [k \in {} |-> NoAnswer]
  /\ doc = NoDoc
  /\ ret = [k \in {} |-> Nil]
  /\ result = Nil
  /\ held = [k \in {} |-> {}]
  /\ origin = [r \in RRIds |-> NoDoc]
  /\ NoCalls

\* ----------------------------------------------------------------- batch
\* The key batch.add files rr under inside its group.
addKey(rr) == rr.req.DocumentID

\* batch.add: b[getKey(rr)][rr.req.DocumentID] = rr.  A group the batch does
\* not have is a nil map, and the assignment panics.
BatchAdd(rq) ==
  /\ pc = "intake"
  /\ Len(submitted) < MaxRequests
  /\ LET rr == [req |-> rq, id |-> Len(submitted) + 1] IN
       /\ submitted' = Append(submitted, rr)
       /\ IF getKey(rr) \in DOMAIN batch
            THEN /\ batch' = [batch EXCEPT ![getKey(rr)] = MapSet(@, addKey(rr), rr)]
                 /\ pc' = pc
            ELSE /\ batch' = batch
                 /\ pc' = "panic"
  /\ UNCHANGED << decodeVars, chans, dst, cur, executed, backend, doc, ret,
                  result, held, origin >>

\* batch.execute is entered: the for loop over the groups begins.
BatchExecute ==
  /\ pc = "intake"
  /\ pc' = "loop"
  /\ held' = [k \in DOMAIN batch |-> IdsOf(batch[k])]
  /\ UNCHANGED << decodeVars, batch, submitted, chans, dst, cur, executed, backend,
                  doc, ret, result, origin >>

\* The groups the loop of batch.execute still has to visit.
Remaining == DOMAIN batch \ executed

\* The loop of batch.execute ran out of groups: return nil.
BatchReturn ==
  /\ pc = "loop"
  /\ Remaining = {}
  /\ pc' = "returned"
  /\ result' = Nil
  /\ UNCHANGED << decodeVars, batch, submitted, chans, dst, cur, executed, backend,
                  doc, ret, held, origin >>

\* GroupReturns with a batch.execute that goes on with the next group
\* whatever the group returned.
GroupReturnsGoesOn(k, err) ==
  /\ ret' = [g \in DOMAIN ret \cup {k} |-> IF g = k THEN err ELSE ret[g]]
  /\ cur' = NoGroup
  /\ pc' = "loop"
  /\ result' = IF err = Nil THEN result ELSE err

\* The execution of group k returns err to batch.execute, which returns it
\* at once when it is not nil and goes on with the next group otherwise.
GroupReturns(k, err) ==
  /\ ret' = [g \in DOMAIN ret \cup {k} |-> IF g = k THEN err ELSE ret[g]]
  /\ cur' = NoGroup
  /\ IF err = Nil
       THEN pc' = "loop" /\ result' = result
       ELSE pc' = "returned" /\ result' = err

\* ----------------------------------------------------------- bulkRequest
\* sendBulkResponse: every reqresp still in the map gets the response and
\* its channel is closed; nothing is deleted.
sendBulkResponse(rrs, found, err) ==
  [r \in RRIds |->
     IF r \in IdsOf(rrs) THEN SendAndClose(chans[r], GetResponse(found, err))
     ELSE chans[r]]

\* sendResponse without its delete.
sendResponseKeeps(key, found, err) ==
  /\ chans' = [chans EXCEPT ![batch[cur][key].id] =
                 SendAndClose(@, GetResponse(found, err))]
  /\ batch' = batch

\* sendResponse on a key the map holds: send, close, delete.
sendResponse(key, found, err) ==
  /\ chans' = [chans EXCEPT ![batch[cur][key].id] =
                 SendAndClose(@, GetResponse(found, err))]
  /\ batch' = [batch EXCEPT ![cur] = MapDelete(@, key)]

\* sendResponse on a key the map does not hold sends on the nil channel of
\* the zero reqresp, which blocks for ever.
Blocks(key) == Lookup(batch[cur], key).id = 0

Answer(kind, err, status, bodyOK) ==
  [kind |-> kind, err |-> err, status |-> status, bodyOK |-> bodyOK]

Begin(k, answer) ==
  /\ pc = "loop"
  /\ k \in Remaining
  /\ executed' = executed \cup {k}
  /\ backend' = [g \in DOMAIN backend \cup {k} |->
                   IF g = k THEN answer ELSE backend[g]]

\* DoFails without the sendBulkResponse before the return.
DoFailsUnresolved(k, err) ==
  /\ Begin(k, Answer("transport", err, 0, FALSE))
  /\ GroupReturns(k, err)
  /\ UNCHANGED << decodeVars, batch, submitted, chans, dst, doc, held, origin >>

\* execute: the multi-get call itself fails.
DoFails(k, err) ==
  /\ Begin(k, Answer("transport", err, 0, FALSE))
  /\ chans' = sendBulkResponse(batch[k], FALSE, err)
  /\ GroupReturns(k, err)
  /\ UNCHANGED << decodeVars, batch, submitted, dst, doc, held, origin >>

\* DoBodyError as it once was: the requests get the error of decodeResponse as
\* it is, the caller gets it wrapped in another error.
DoBodyErrorOld(k) ==
  /\ Begin(k, Answer("response", Nil, StatusOK, FALSE))
  /\ chans' = sendBulkResponse(batch[k], FALSE, DecodeBodyErr)
  /\ GroupReturns(k, Err("error decoding response body", 0))
  /\ UNCHANGED << decodeVars, batch, submitted, dst, doc, held, origin >>

\* execute: the multi-get call returns a response.  processResponse, case
\* 200: decodeResponse fails.
DoBodyError(k) ==
  /\ Begin(k, Answer("response", Nil, StatusOK, FALSE))
  /\ chans' = sendBulkResponse(batch[k], FALSE, DecodeBodyErr)
  /\ GroupReturns(k, DecodeBodyErr)
  /\ UNCHANGED << decodeVars, batch, submitted, dst, doc, held, origin >>

\* processResponse, case 200: decodeResponse succeeds, the loop over the
\* entries begins.
DoDocs(k) ==
  /\ Begin(k, Answer("response", Nil, StatusOK, TRUE))
  /\ cur' = k
  /\ pc' = "docs"
  /\ UNCHANGED << decodeVars, batch, submitted, chans, dst, doc, ret, result, held,
                  origin >>

\* DoStatus as the default branch once was: an error status returns the
\* error and sends nothing, any other status resolves as not found.
DoStatusOld(k, status) ==
  /\ status /= StatusOK
  /\ Begin(k, Answer("response", Nil, status, TRUE))
  /\ IF IsError(status)
       THEN chans' = chans /\ GroupReturns(k, StatusErr(status))
       ELSE chans' = sendBulkResponse(batch[k], FALSE, Nil) /\ GroupReturns(k, Nil)
  /\ UNCHANGED << decodeVars, batch, submitted, dst, doc, held, origin >>

\* processResponse, default branch: build the error, then the sendBulkResponse
\* and the return at the end of the function.
DoStatus(k, status) ==
  /\ status /= StatusOK
  /\ Begin(k, Answer("response", Nil, status, TRUE))
  /\ chans' = sendBulkResponse(batch[k], FALSE, StatusErr(status))
  /\ GroupReturns(k, StatusErr(status))
  /\ UNCHANGED << decodeVars, batch, submitted, dst, doc, held, origin >>

\* The reqresp the loop of processResponse finds for entry d: r.rrs[key].
Target(d) == Lookup(batch[cur], keyFromResponseDoc(d))

Resolved(o, d) == IF Target(d).id = 0 THEN o ELSE [o EXCEPT ![Target(d).id] = d]

\* DocNotFound as the loop once was: found is not looked at, the empty source
\* of the entry fails to unmarshal, and the group stops with that error.
DocNotFoundOld(d) ==
  /\ pc = "docs"
  /\ ~d.Found
  /\ IF Blocks(keyFromResponseDoc(d))
       THEN /\ pc' = "blocked"
            /\ UNCHANGED << batch, chans, cur, ret, result, origin >>
       ELSE /\ sendResponse(keyFromResponseDoc(d), FALSE, DecodeSourceErr)
            /\ GroupReturns(cur, DecodeSourceErr)
            /\ origin' = Resolved(origin, d)
  /\ UNCHANGED << decodeVars, submitted, dst, executed, backend, doc, held >>

\* The loop of processResponse, an entry with found == false.
DocNotFound(d) ==
  /\ pc = "docs"
  /\ ~d.Found
  /\ IF Blocks(keyFromResponseDoc(d))
       THEN /\ pc' = "blocked"
            /\ UNCHANGED << batch, chans, origin >>
       ELSE /\ sendResponse(keyFromResponseDoc(d), FALSE, Nil)
            /\ origin' = Resolved(origin, d)
            /\ pc' = pc
  /\ UNCHANGED << decodeVars, submitted, dst, cur, executed, backend, doc, ret,
                  result, held >>

\* The loop of processResponse, an entry with found == true whose
\* decodeSource into the destination of r.rrs[key] succeeds.
DocDecode(d) ==
  /\ pc = "docs"
  /\ d.Found
  /\ decodeErr(d.Source, Target(d).id) = Nil
  /\ dst' = decodeWrite(dst, d.Source, Target(d).id)
  /\ origin' = Resolved(origin, d)
  /\ doc' = d
  /\ pc' = "send"
  /\ UNCHANGED << decodeVars, batch, submitted, chans, cur, executed, backend, ret,
                  result, held >>

\* decodeSource succeeded: sendResponse(key, true, nil), next entry.
DocSendFound ==
  /\ pc = "send"
  /\ IF Blocks(keyFromResponseDoc(doc))
       THEN /\ pc' = "blocked"
            /\ UNCHANGED << batch, chans >>
       ELSE /\ sendResponse(keyFromResponseDoc(doc), TRUE, Nil)
            /\ pc' = "docs"
  /\ doc' = NoDoc
  /\ UNCHANGED << decodeVars, submitted, dst, cur, executed, backend, ret, result,
                  held, origin >>

\* DocDecodeError with a loop that goes on with the next entry after the
\* failed one.
DocDecodeErrorGoesOn(d) ==
  /\ pc = "docs"
  /\ d.Found
  /\ decodeErr(d.Source, Target(d).id) /= Nil
  /\ dst' = decodeWrite(dst, d.Source, Target(d).id)
  /\ IF Blocks(keyFromResponseDoc(d))
       THEN /\ pc' = "blocked"
            /\ UNCHANGED << batch, chans, origin >>
       ELSE /\ sendResponse(keyFromResponseDoc(d), FALSE,
                            decodeErr(d.Source, Target(d).id))
            /\ origin' = Resolved(origin, d)
            /\ pc' = pc
  /\ UNCHANGED << decodeVars, submitted, cur, executed, backend, doc, ret, result,
                  held >>

\* The loop of processResponse, an entry with found == true whose
\* decodeSource fails: sendResponse(key, false, err) and return err.
DocDecodeError(d) ==
  /\ pc = "docs"
  /\ d.Found
  /\ decodeErr(d.Source, Target(d).id) /= Nil
  /\ dst' = decodeWrite(dst, d.Source, Target(d).id)
  /\ IF Blocks(keyFromResponseDoc(d))
       THEN /\ pc' = "blocked"
            /\ UNCHANGED << batch, chans, cur, ret, result, origin >>
       ELSE /\ sendResponse(keyFromResponseDoc(d), FALSE,
                            decodeErr(d.Source, Target(d).id))
            /\ GroupReturns(cur, decodeErr(d.Source, Target(d).id))
            /\ origin' = Resolved(origin, d)
  /\ UNCHANGED << decodeVars, submitted, executed, backend, doc, held >>

\* ProcessRest without the sendBulkResponse before the return.
ProcessRestSkips ==
  /\ pc = "docs"
  /\ GroupReturns(cur, Nil)
  /\ UNCHANGED << decodeVars, batch, submitted, chans, dst, executed, backend, doc,
                  held, origin >>

\* The reply has no further entry: the sendBulkResponse and the return at the end of
\* processResponse.  The err they use is the one declared before the switch,
\* which case 200 never assigns (its own err shadows it): nil.
ProcessRest ==
  /\ pc = "docs"
  /\ chans' = sendBulkResponse(batch[cur], FALSE, Nil)
  /\ GroupReturns(cur, Nil)
  /\ UNCHANGED << decodeVars, batch, submitted, dst, executed, backend, doc,
                  held, origin >>

\* ------------------------------------------------------------------ spec
Next ==
  \/ \E rq \in GetRequests : BatchAdd(rq)
  \/ BatchExecute
  \/ \E k \in GroupKeys, err \in TransportErrs : DoFails(k, err)
  \/ \E k \in GroupKeys : DoBodyError(k)
  \/ \E k \in GroupKeys : DoDocs(k)
  \/ \E k \in GroupKeys, status \in StatusCodes : DoStatus(k, status)
  \/ \E d \in Docs : DocNotFound(d)
  \/ \E d \in Docs : DocDecode(d)
  \/ DocSendFound
  \/ \E d \in Docs : DocDecodeError(d)
  \/ ProcessRest
  \/ BatchReturn

Spec == Init /\ [][Next]_vars

\* --------------------------------------------- concurrent decodeSource
\* Goroutines call decodeSource on one bulkRequest with a destination they
\* share.  decodeSource has a value receiver: every call works on its own copy
\* of the bulkRequest, the decodeMutex field included.
DecodeSources == {"1", "2", "x"}
Values == {0, 1, 2}

batchVars == << batch, submitted, chans, dst, pc, cur, executed, backend,
                doc, ret, result, held, origin >>

\* The call: the receiver is copied into the frame of the call.
decodeSourceCall(g, src) ==
  /\ frame[g].at = "out"
  /\ frame' = [frame EXCEPT ![g] =
                 [at |-> "lock", mutex |-> decodeMutex, src |-> src, err |-> Nil]]
  /\ UNCHANGED << batchVars, decodeMutex, target >>

\* r.decodeMutex.Lock() on the mutex of the copy; it waits while that mutex
\* is locked.
decodeSourceLock(g) ==
  /\ frame[g].at = "lock"
  /\ frame[g].mutex = "unlocked"
  /\ frame' = [frame EXCEPT ![g].mutex = "locked", ![g].at = "unmarshal"]
  /\ UNCHANGED << batchVars, decodeMutex, target >>

\* json.Unmarshal(src, dst) is entered.
decodeSourceUnmarshal(g) ==
  /\ frame[g].at = "unmarshal"
  /\ frame' = [frame EXCEPT ![g].at = "decoding"]
  /\ UNCHANGED << batchVars, decodeMutex, target >>

\* Another goroutine is inside json.Unmarshal on the same destination.
Racing(g) == \E h \in Goroutines \ {g} : frame[h].at = "decoding"

\* json.Unmarshal returns: a source that does not parse leaves the destination
\* alone and gives an error; one that parses is written to the destination.
\* A write that races with another call's leaves any value there.
decodeSourceWrite(g) ==
  /\ frame[g].at = "decoding"
  /\ frame' = [frame EXCEPT ![g].at = "unlock",
                            ![g].err = decodeErr(frame[g].src, g)]
  /\ IF ~Valid(frame[g].src) THEN target' = target
     ELSE IF Racing(g) THEN target' \in Values
     ELSE target' = Parsed(frame[g].src)
  /\ UNCHANGED << batchVars, decodeMutex >>

\* r.decodeMutex.Unlock() on the mutex of the copy.
decodeSourceUnlock(g) ==
  /\ frame[g].at = "unlock"
  /\ frame' = [frame EXCEPT ![g].mutex = "unlocked", ![g].at = "return"]
  /\ UNCHANGED << batchVars, decodeMutex, target >>

\* return err: the frame and the copy in it are gone.
decodeSourceReturn(g) ==
  /\ frame[g].at = "return"
  /\ frame' = [frame EXCEPT ![g] = NoFrame]
  /\ UNCHANGED << batchVars, decodeMutex, target >>

\* One bulkRequest with no request in it, and no call of decodeSource yet.
InitDecode == Init /\ batch = [k \in {""} |-> EmptyMap]

NextDecode ==
  \/ \E g \in Goroutines, src \in DecodeSources : decodeSourceCall(g, src)
  \/ \E g \in Goroutines : decodeSourceLock(g)
  \/ \E g \in Goroutines : decodeSourceUnmarshal(g)
  \/ \E g \in Goroutines : decodeSourceWrite(g)
  \/ \E g \in Goroutines : decodeSourceUnlock(g)
  \/ \E g \in Goroutines : decodeSourceReturn(g)

SpecDecode == InitDecode /\ [][NextDecode]_vars

\* ---------------------------------------------------------------- claims
\* The request a reqresp id was submitted with.
ReqOf(r) == submitted[r].req

\* A channel that got exactly this response and was then closed.
Resolution(found, err) == << SendEv(GetResponse(found, err)), CloseEv >>

\* A channel that got exactly one response and was then closed.
IsResolved(log) ==
  /\ Len(log) = 2
  /\ log[1].op = "send"
  /\ log[2].op = "close"

StatusNotFound == 404

\* C1: a request resolved (or written) by a reply entry has the index and
\* the document id of that entry.
C1_Demultiplexing ==
  \A r \in RRIds :
    origin[r] /= NoDoc =>
      /\ origin[r].Index = ReqOf(r).Index
      /\ origin[r].ID = ReqOf(r).DocumentID

\* C2: on every result channel at most one response is sent, the close
\* follows the send, and nothing is done to a closed channel.
C2_AtMostOnce ==
  \A r \in RRIds :
    /\ Len(chans[r]) <= 2
    /\ Len(chans[r]) >= 1 => chans[r][1].op = "send"
    /\ Len(chans[r]) = 2 => chans[r][2].op = "close"
    /\ ~ChanPanics(chans[r])

C2_Witness ==
  /\ pc = "returned"
  /\ \E k \in DOMAIN held : \E r1, r2 \in held[k] :
       /\ origin[r1] /= NoDoc /\ IsResolved(chans[r1])
       /\ origin[r2] = NoDoc /\ IsResolved(chans[r2])

\* C3: when batch.execute has returned nil, every reqresp the batch held has
\* got exactly one response and its channel is closed.
C3_CompleteOnSuccess ==
  (pc = "returned" /\ result = Nil) =>
    \A k \in DOMAIN held : \A r \in held[k] : IsResolved(chans[r])

C3_Witness ==
  /\ pc = "returned"
  /\ result = Nil
  /\ \E k1, k2 \in DOMAIN held :
       k1 /= k2 /\ held[k1] /= {} /\ held[k2] /= {}

\* C4: two requests have the same group key if and only if they have the
\* same index and the same field list.
C4_GroupKeyInjective ==
  \A i, j \in 1..Len(submitted) :
    (getKey(submitted[i]) = getKey(submitted[j]))
      <=> /\ ReqOf(i).Index = ReqOf(j).Index
          /\ ReqOf(i).Fields = ReqOf(j).Fields

\* C5: when the multi-get call of a group fails, every request of the group
\* gets {false, that error}, its channel is closed, and the execution of the
\* group returns that error.
C5_TransportFailure ==
  \A k \in DOMAIN backend :
    backend[k].kind = "transport" =>
      /\ k \in DOMAIN ret
      /\ ret[k] = backend[k].err
      /\ ret[k] \in TransportErrs
      /\ \A r \in held[k] : chans[r] = Resolution(FALSE, backend[k].err)

C5_Witness ==
  \E k \in DOMAIN backend :
    /\ backend[k].kind = "transport"
    /\ Cardinality(held[k]) >= 2

\* C6: when the backend answers a group with status 404, every request of
\* the group gets {false, nil}, its channel is closed, and the execution of
\* the group returns nil.
C6_NotFoundStatus ==
  \A k \in DOMAIN ret :
    (backend[k].kind = "response" /\ backend[k].status = StatusNotFound) =>
      /\ ret[k] = Nil
      /\ \A r \in held[k] : chans[r] = Resolution(FALSE, Nil)

\* C7: when the backend answers a group with a status that is neither 200
\* nor 404, every request of the group gets a response with the error built
\* for that status, its channel is closed, and the execution of the group
\* returns that error.
C7_ErrorStatus ==
  \A k \in DOMAIN backend :
    (backend[k].kind = "response"
       /\ backend[k].status \notin {StatusOK, StatusNotFound}) =>
      /\ k \in DOMAIN ret
      /\ ret[k] /= Nil
      /\ ret[k].code = backend[k].status
      /\ ret[k].kind \in {"HTTP Error", "Unexpected HTTP return code"}
      /\ \A r \in held[k] :
           /\ IsResolved(chans[r])
           /\ chans[r][1].val.err = ret[k]

C7_Witness ==
  \E k \in DOMAIN ret :
    /\ backend[k].kind = "response"
    /\ backend[k].status = 500
    /\ Cardinality(held[k]) >= 2

\* C8: batch.execute returns the error of the first group whose execution
\* returns one and executes no further group: the requests of the groups not
\* executed have channels with nothing sent and not closed, and the requests
\* of the groups executed before keep their responses.
C8_EarlyStop ==
  /\ \A k \in DOMAIN ret :
       ret[k] /= Nil => pc = "returned" /\ result = ret[k]
  /\ (pc = "returned" /\ result /= Nil) =>
       /\ \A k \in DOMAIN batch \ executed :
            \A r \in held[k] : chans[r] = << >>
       /\ \A k \in DOMAIN ret :
            ret[k] = Nil =>
              \A r \in held[k] :
                IsResolved(chans[r]) /\ chans[r][1].val.err = Nil
  /\ pc = "returned" => ~ENABLED Next

C8_Witness ==
  /\ pc = "returned"
  /\ result /= Nil
  /\ \E k \in DOMAIN ret : ret[k] = Nil /\ held[k] /= {}
  /\ \E k \in DOMAIN batch \ executed : held[k] /= {}

\* C9: a request found by a reply entry with found = false gets {false, nil},
\* its channel is closed, it is no longer in its group, and its destination
\* still has the value it was created with.
C9_NotFoundDocument ==
  \A r \in RRIds :
    (origin[r] /= NoDoc /\ ~origin[r].Found) =>
      /\ chans[r] = Resolution(FALSE, Nil)
      /\ \A k \in DOMAIN batch : r \notin IdsOf(batch[k])
      /\ dst[r] = 0

C9_Witness ==
  \E r \in RRIds :
    /\ origin[r] /= NoDoc
    /\ ~origin[r].Found
    /\ IsResolved(chans[r])

\* C10: a request found by a reply entry with found = true whose source
\* unmarshals has the parsed source in its destination before anything is
\* sent, and then gets {true, nil} and its channel is closed.
C10_FoundDocument ==
  \A r \in RRIds :
    (origin[r].Found /\ Valid(origin[r].Source)) =>
      /\ dst[r] = Parsed(origin[r].Source)
      /\ IF pc = "send" /\ Target(doc).id = r
           THEN chans[r] = << >>
           ELSE chans[r] = Resolution(TRUE, Nil)

C10_Witness ==
  \E r \in RRIds :
    /\ origin[r].Found
    /\ origin[r].Source = "1"
    /\ dst[r] = 1
    /\ chans[r] = Resolution(TRUE, Nil)

\* The multi-get calls made so far that carried at least one document.
CallsWithDocs == {k \in executed : held[k] /= {}}

\* The (index, field list) combinations among the submitted requests.
Combinations ==
  {<< ReqOf(i).Index, ReqOf(i).Fields >> : i \in 1..Len(submitted)}

\* C11: when batch.execute has returned nil, the multi-get calls are as many
\* as the (index, field list) combinations of the submitted requests, and
\* the requests of one call all have the same index and field list.
C11_CoalescingCount ==
  (pc = "returned" /\ result = Nil) =>
    /\ Cardinality(CallsWithDocs) = Cardinality(Combinations)
    /\ \A k \in executed : \A r1, r2 \in held[k] :
         /\ ReqOf(r1).Index = ReqOf(r2).Index
         /\ ReqOf(r1).Fields = ReqOf(r2).Fields

\* Submission j repeats the (index, id) of the earlier submission i in the
\* same group.
Duplicates(i, j) ==
  /\ i < j
  /\ getKey(submitted[i]) = getKey(submitted[j])
  /\ ReqOf(i).Index = ReqOf(j).Index
  /\ ReqOf(i).DocumentID = ReqOf(j).DocumentID

\* C12: of two submissions with the same (index, id) in one group the later
\* replaces the earlier: while requests are added the group holds under their
\* key the later one (or one added after it), never the earlier, and the
\* channel of the earlier one is never sent to and never closed.
C12_DuplicateSubmission ==
  \A i, j \in 1..Len(submitted) :
    (Duplicates(i, j) /\ pc /= "panic") =>
      /\ chans[i] = << >>
      /\ \A k \in DOMAIN batch : i \notin IdsOf(batch[k])
      /\ \A k \in DOMAIN held : i \notin held[k]
      /\ pc = "intake" =>
           Lookup(batch[getKey(submitted[i])], addKey(submitted[i])).id >= j

C12_Witness ==
  /\ pc = "returned"
  /\ \E i, j \in 1..Len(submitted) :
       /\ Duplicates(i, j)
       /\ chans[i] = << >>
       /\ IsResolved(chans[j])

\* The request that the last batch.add was given.
LastAdded == submitted[Len(submitted)]

\* C13: batch.add never fails for want of a group, and after an add the batch
\* maps the group key of the added request to a group that holds the request
\* under its index followed by its id.
C13_AddRouting ==
  /\ pc /= "panic"
  /\ (pc = "intake" /\ Len(submitted) > 0) =>
       /\ getKey(LastAdded) \in DOMAIN batch
       /\ Lookup(batch[getKey(LastAdded)], keyFromRR(LastAdded)) = LastAdded

\* C14: while requests are being added, the entries of one group have one
\* index and one field list, and two entries of a group with the same index
\* followed by id have the same index and the same id.
C14_GroupHomogeneity ==
  pc = "intake" =>
    \A k \in DOMAIN batch : \A e1, e2 \in DOMAIN batch[k] :
      LET r1 == batch[k][e1].req
          r2 == batch[k][e2].req IN
        /\ r1.Index = r2.Index
        /\ r1.Fields = r2.Fields
        /\ keyFromRR(batch[k][e1]) = keyFromRR(batch[k][e2]) =>
             (r1.Index = r2.Index /\ r1.DocumentID = r2.DocumentID)

\* The source of the reply entry that reached request r failed to unmarshal.
DecodeFailed(r) == origin[r].Found /\ ~Valid(origin[r].Source)

\* C15: a request whose found entry failed to unmarshal got {false, decode
\* error} and left its group; the group's execution and batch.execute
\* returned that error; it is the only such request of its group; the requests
\* of the group that earlier entries reached keep their nil-error responses,
\* and those no entry reached are still in the group with untouched channels.
C15_DecodeFailureAborts ==
  \A r \in 1..Len(submitted) : DecodeFailed(r) =>
    /\ chans[r] = Resolution(FALSE, DecodeSourceErr)
    /\ \A g \in DOMAIN batch : r \notin IdsOf(batch[g])
    /\ pc = "returned"
    /\ result = DecodeSourceErr
    /\ \E k \in DOMAIN ret :
         /\ r \in held[k]
         /\ ret[k] = DecodeSourceErr
         /\ \A q \in held[k] \ {r} :
              /\ ~DecodeFailed(q)
              /\ IF origin[q] = NoDoc
                   THEN chans[q] = << >> /\ q \in IdsOf(batch[k])
                   ELSE chans[q] = Resolution(origin[q].Found, Nil)

C15_Witness ==
  \E k \in DOMAIN ret : \E r, q \in held[k] :
    /\ DecodeFailed(r)
    /\ ret[k] = DecodeSourceErr
    /\ chans[r] = Resolution(FALSE, DecodeSourceErr)
    /\ q /= r
    /\ chans[q] = << >>
    /\ q \in IdsOf(batch[k])

\* The index+id keys of the reply entries that the execution of group k
\* processed; each processed entry reached a request of the group, since one
\* that reaches none stops the execution for good.
EntryKeys(k) ==
  {keyFromResponseDoc(origin[q]) : q \in {h \in held[k] : origin[h] /= NoDoc}}

\* The execution of group k got a 200 reply with a body that decodes, went
\* through its entries with no decode failure, and returned.
ProcessedAll(k) ==
  /\ k \in DOMAIN ret
  /\ backend[k].kind = "response"
  /\ backend[k].status = StatusOK
  /\ backend[k].bodyOK
  /\ \A q \in held[k] : ~DecodeFailed(q)

\* C16: once a 200 reply has been processed to its end with no decode
\* failure, the execution has returned nil and every request of the group
\* whose index+id is the key of no processed entry got {false, nil} on a
\* channel that is closed.
C16_AbsentNotFound ==
  \A k \in DOMAIN held : ProcessedAll(k) =>
    /\ ret[k] = Nil
    /\ \A r \in held[k] :
         keyFromRR(submitted[r]) \notin EntryKeys(k) =>
           chans[r] = Resolution(FALSE, Nil)

\* The errors that request r was sent, nil included.
Delivered(r) ==
  {chans[r][i].val.err : i \in {j \in 1..Len(chans[r]) : chans[r][j].op = "send"}}

\* C17: an error that is not nil and was delivered to a request of a group is
\* the error the group's execution returned; an execution that returned nil
\* delivered no such error; and an execution that returned an error for a
\* group that held requests delivered that error to one of them.
C17_ReturnedMatchesDelivered ==
  \A k \in DOMAIN held :
    /\ \A r \in held[k] : \A e \in Delivered(r) \ {Nil} :
         k \in DOMAIN ret /\ ret[k] = e
    /\ k \in DOMAIN ret =>
         /\ ret[k] = Nil => \A r \in held[k] : Delivered(r) \subseteq {Nil}
         /\ (ret[k] /= Nil /\ held[k] /= {}) =>
              \E r \in held[k] : ret[k] \in Delivered(r)

C17_Witness ==
  \E k \in DOMAIN ret : \E r \in held[k] :
    /\ ret[k] = DecodeBodyErr
    /\ chans[r] = Resolution(FALSE, DecodeBodyErr)
    /\ result = DecodeBodyErr

\* C18: at no time are two goroutines inside json.Unmarshal for calls of
\* decodeSource on the same bulkRequest.
C18_DecodeSerialization ==
  Cardinality({g \in Goroutines : frame[g].at = "decoding"}) <= 1

\* C19: the execution of a group never comes to wait on a channel send that
\* cannot complete (result channels take a send without waiting, so such a
\* wait is on the nil channel of a reqresp the group does not hold, and no
\* step of the program ends it).
C19_Termination == pc /= "blocked"

====
